---- MODULE Spec2Model ----
(***************************************************************************)
(* Model of aitios' simulation driver (src/src/sim/sim.rs): the run loop,  *)
(* the per-particle trace (trace_straight / trace_flow) and the substance  *)
(* transport between a gammaton and the surfels it interacts with.         *)
(*                                                                         *)
(* Substances, motion probabilities, deterioration rates and the transfer  *)
(* weight are f32 in the source.  An f32 is held here as a signed integer: *)
(* the 31 low bits of its IEEE-754 pattern, negated for a negative value,  *)
(* so that < and = on the integers are < and == on the finite floats.      *)
(* F32Add, F32Sub and F32Mul round to nearest, ties to even, like the      *)
(* hardware operations the compiled code uses.                             *)
(***************************************************************************)
EXTENDS Integers, Sequences, FiniteSets, TLC

(***************************************************************************)
(* IEEE-754 binary32 arithmetic                                            *)
(***************************************************************************)
Hidden == 2^23
F32Inf == 255 * Hidden

\* The value of Op at the values of its arguments (each evaluated once).
At2(Op(_, _), x, y) == CHOOSE r \in {Op(a, b) : a \in {x}, b \in {y}} : TRUE
At3(Op(_, _, _), x, y, z) ==
    CHOOSE r \in {Op(a, b, c) : a \in {x}, b \in {y}, c \in {z}} : TRUE

\* The number of bits of m.
RECURSIVE BitLenFrom(_)
BitLenFrom(m) == IF m = 0 THEN 0 ELSE 1 + BitLenFrom(m \div 2)
BitLen(m) == IF m >= Hidden THEN 23 + BitLenFrom(m \div Hidden) ELSE BitLenFrom(m)

\* m shifted right by k bits; the lowest bit of the result is set when a
\* one was shifted out (the sticky bit).
ShiftRightSticky(m, k) ==
    IF k = 0 THEN m
    ELSE IF k >= 31 THEN (IF m = 0 THEN 0 ELSE 1)
    ELSE LET q == m \div 2^k
         IN  IF m % 2^k # 0 /\ q % 2 = 0 THEN q + 1 ELSE q

F32Abs(x) == IF x < 0 THEN -x ELSE x
F32Sign(x) == IF x < 0 THEN -1 ELSE 1
\* Exponent and significand of a finite float: |x| = F32Mant(x) * 2^(F32Exp(x) - 150).
F32Exp(x) == IF F32Abs(x) < Hidden THEN 1 ELSE F32Abs(x) \div Hidden
F32Mant(x) == IF F32Abs(x) < Hidden THEN F32Abs(x) ELSE (F32Abs(x) % Hidden) + Hidden

\* Round m * 2^(e - 150), m > 0, to 24 bits by dropping its k low bits
\* (k <= 0: none), to nearest, ties to even; the result as the bit pattern.
RoundShifted(m, e, k) ==
    IF k <= 0
    THEN (e + k - 1) * Hidden + m * 2^(-k)
    ELSE IF k >= 31
    THEN (IF k = 31 /\ m > 2^30 THEN 1 ELSE 0)
    ELSE LET q == m \div 2^k
             r == m % 2^k
             up == IF r > 2^(k - 1) \/ (r = 2^(k - 1) /\ q % 2 = 1) THEN 1 ELSE 0
             enc == (e + k - 1) * Hidden + q + up
         IN  IF enc >= F32Inf THEN F32Inf ELSE enc

\* The bits to drop: down to 24 bits, or more when the result is subnormal.
RoundDrop(m, e) == IF e + (BitLen(m) - 24) < 1 THEN 1 - e ELSE BitLen(m) - 24

RoundMag(m, e) == IF m = 0 THEN 0 ELSE At3(RoundShifted, m, e, RoundDrop(m, e))

\* The float nearest to sign * m * 2^(e - 150), ties to even.
F32Round(sign, m, e) == sign * At2(RoundMag, m, e)

RoundSigned(s, e) == F32Round(F32Sign(s), F32Abs(s), e)

\* x + y for x with the larger exponent: the significands with three more
\* bits, the smaller shifted to the exponent of the larger.
AddOrdered(hi, lo) ==
    At2(RoundSigned,
        F32Sign(hi) * (F32Mant(hi) * 8)
            + F32Sign(lo) * ShiftRightSticky(F32Mant(lo) * 8, F32Exp(hi) - F32Exp(lo)),
        F32Exp(hi) - 3)

AddValues(x, y) == IF F32Exp(x) >= F32Exp(y) THEN AddOrdered(x, y) ELSE AddOrdered(y, x)

F32Add(x, y) == At2(AddValues, x, y)

F32Sub(x, y) == F32Add(x, -y)

\* The significand shifted up to 24 bits, and the exponent that goes with it.
F32NormShift(x) == IF F32Mant(x) = 0 THEN 0 ELSE 24 - BitLen(F32Mant(x))

\* The product of two 24-bit significands mx, my, as the 30 high bits of the
\* 48-bit product with the sticky bit, from 12-bit halves.
MulMant(mx, my) ==
    LET a1 == mx \div 4096
        a0 == mx % 4096
        b1 == my \div 4096
        b0 == my % 4096
        mid == a1 * b0 + a0 * b1 + ((a0 * b0) \div 4096)
        q == a1 * b1 + (mid \div 4096)
        r == (mid % 4096) * 4096 + ((a0 * b0) % 4096)
        m == q * 64 + (r \div 2^18)
    IN  IF r % 2^18 # 0 /\ m % 2 = 0 THEN m + 1 ELSE m

MulShifted(x, y, kx, ky) ==
    F32Round(F32Sign(x) * F32Sign(y),
             MulMant(F32Mant(x) * 2^kx, F32Mant(y) * 2^ky),
             (F32Exp(x) - kx) + (F32Exp(y) - ky) - 132)

MulValues(x, y) ==
    CHOOSE r \in {MulShifted(x, y, kx, ky) :
                    kx \in {F32NormShift(x)}, ky \in {F32NormShift(y)}} : TRUE

F32Mul(x, y) == At2(MulValues, x, y)

\* Division: the quotient of the normalised significands by long division,
\* n more bits of it after acc, as <<quotient, remainder>>.
RECURSIVE DivBits(_, _, _, _)
DivBits(rem, d, n, acc) ==
    IF n = 0 THEN <<acc, rem>>
    ELSE LET Step(r2) == IF r2 >= d THEN DivBits(r2 - d, d, n - 1, acc * 2 + 1)
                         ELSE DivBits(r2, d, n - 1, acc * 2)
         IN  CHOOSE r \in {Step(r2) : r2 \in {rem * 2}} : TRUE

\* mx / my with 26 bits after the binary point and a sticky last bit
DivMant(mx, my) ==
    LET Sticky(qr) == qr[1] * 2 + (IF qr[2] = 0 THEN 0 ELSE 1)
    IN  CHOOSE m \in {Sticky(qr) : qr \in {IF mx >= my THEN DivBits(mx - my, my, 26, 1)
                                            ELSE DivBits(mx, my, 26, 0)}} : TRUE

DivShifted(x, y, kx, ky) ==
    F32Round(F32Sign(x) * F32Sign(y),
             DivMant(F32Mant(x) * 2^kx, F32Mant(y) * 2^ky),
             ((F32Exp(x) - kx) - (F32Exp(y) - ky)) + 123)

DivValues(x, y) ==
    IF y = 0 THEN F32Sign(x) * F32Inf
    ELSE IF x = 0 THEN 0
    ELSE CHOOSE r \in {DivShifted(x, y, kx, ky) :
                          kx \in {F32NormShift(x)}, ky \in {F32NormShift(y)}} : TRUE

F32Div(x, y) == At2(DivValues, x, y)

\* The f32 literals of the model, by biased exponent and fraction field.
F32Lit(e, frac) == e * Hidden + frac
Zero == F32Lit(0, 0)
One == F32Lit(127, 0)
Half == F32Lit(126, 0)
Quarter == F32Lit(125, 0)
OneAndHalf == F32Lit(127, 4194304)
ThreeQuarters == F32Lit(126, 4194304)
\* 0.2f32 = 0x3E4CCCCD, 0.4f32 = 0x3ECCCCCD, 0.08f32 = 0x3DA3D70A, 0.32f32 = 0x3EA3D70A
PointTwo == F32Lit(124, 5033165)
PointFour == F32Lit(125, 5033165)
PointZeroEight == F32Lit(123, 2348810)
PointThreeTwo == F32Lit(125, 2348810)

(***************************************************************************)
(* Bounds of the model                                                     *)
(***************************************************************************)
\* the largest number of iterations a run is configured with
MaxIterations == 2
\* the largest emission count of a source
MaxEmission == 1
\* the deepest nesting of trace_straight calls that is followed: the source
\* has no limit, a ton that would recurse deeper is not traced further
MaxBounces == 2
\* the number of surfels of the surface, of effects and of sinks
NumSurfels == 2
NumEffects == 1
NumSinks == 2

(***************************************************************************)
(* Inputs: the values a run is configured with                             *)
(***************************************************************************)
Weights == {PointTwo, One}
\* <<delta_straight, delta_parabolic, delta_flow>> shared by all surfels of a surface
DeltaTriples == {<<One, Zero, Zero>>, <<Quarter, Quarter, Quarter>>}
\* <<p_straight, p_parabolic, p_flow>> of the tons a source emits
ProbTriples == {<<One, Zero, Zero>>, <<Quarter, Quarter, Quarter>>}
SurfelSubstances == {<<Zero, Zero>>, <<PointFour, Quarter>>}
TonSubstances == {<<One, Zero>>}
Radii == {1, 2}
\* the values the random number generator is observed to return, in [0, 1)
Randoms == {Zero, Quarter, Half, ThreeQuarters}
\* where a ray can meet the scene: next to a surfel or away from all of them
HitPoints == 1 .. (NumSurfels + 2)

VARIABLES
    cfg,            \* the immutable fields of Simulation: iterations, sources,
                    \* ton_to_surface_interaction_weight, hit_map_path, and the
                    \* substances the surface was built with
    surface,        \* Simulation::surface.samples
    scene,          \* Simulation::scene, as the number of effects applied to it
    output_path,    \* Simulation::output_path, as the pushed components
    pc,             \* position in run / trace_particles / trace_straight
    iteration_idx,  \* run's loop variable
    octree,         \* trace_particles' octree: the scene state it was built from
    src_idx,        \* position of the emission iterator: the source ...
    emitted,        \* ... and the number of tons it has emitted
    ton,            \* the ton being traced
    hit,            \* trace_straight's locals: interacting_surfel_idxs, random
    depth,          \* number of nested trace_straight calls of the current ton
    obs,            \* what the run did: calls made, files written
    ret,            \* what a function called on its own returned
    args            \* the arguments of a geometry function called on its own

vars == <<cfg, surface, scene, output_path, pc, iteration_idx, octree,
          src_idx, emitted, ton, hit, depth, obs, ret, args>>

NoTon == [p_straight |-> Zero, p_parabolic |-> Zero, p_flow |-> Zero,
          interaction_radius |-> 0, substances |-> <<>>]
NoLocals == [idxs |-> <<>>, random |-> Zero]
NoOctree == [built |-> FALSE, of_scene |-> 0]
NoRet == [surfel |-> <<>>, ton |-> NoTon]
NoArgs == [fn |-> "none"]

(***************************************************************************)
(* Pure parts of the tracing engine                                        *)
(***************************************************************************)
\* A deterioration without the floor: p -= delta
DeteriorateUnfloored(p, delta) == F32Sub(p, delta)

\* A deterioration that leaves the probability as it is.
DeteriorateNothing(p, delta) == p

\* p -= delta; if p < 0.0 { p = 0.0 }
DeteriorateOne(p, delta) ==
    LET q == F32Sub(p, delta) IN IF q < Zero THEN Zero ELSE q

deteriorate_motion_probabilities(t, surfel) ==
    [t EXCEPT !.p_straight = DeteriorateOne(@, surfel.delta_straight),
              !.p_parabolic = DeteriorateOne(@, surfel.delta_parabolic),
              !.p_flow = DeteriorateOne(@, surfel.delta_flow)]

\* transport_material_to_ton's loop over the zipped substance vectors tons
\* (the ton's) and surfs (the surfel's), as the pair <<surfs, tons>> after it:
\*   transport_amount = weight * surfel_material;
\*   surfel_material -= transport_amount; ton_material += transport_amount
RECURSIVE ToTonLoop(_, _, _)
ToTonLoop(surfs, tons, weight) ==
    IF surfs = <<>> \/ tons = <<>> THEN <<surfs, tons>>
    ELSE LET transport_amount == F32Mul(weight, Head(surfs))
             rest == ToTonLoop(Tail(surfs), Tail(tons), weight)
         IN  << <<F32Sub(Head(surfs), transport_amount)>> \o rest[1],
                <<F32Add(Head(tons), transport_amount)>> \o rest[2] >>

\* A transport that takes the material off the surfel and leaves the ton as
\* it was.
TransportLosesMaterial(surfel, t, weight) ==
    <<[surfel EXCEPT !.substances = ToTonLoop(surfel.substances, t.substances, weight)[1]], t>>

\* The pair <<surfel, ton>> after transport_material_to_ton(surfel, ton, weight).
\* (The assert_eq on the two lengths holds: every source and the surface are
\* configured with the same number of substances.)
transport_material_to_ton(surfel, t, weight) ==
    LET r == At3(ToTonLoop, surfel.substances, t.substances, weight)
    IN  <<[surfel EXCEPT !.substances = r[1]], [t EXCEPT !.substances = r[2]]>>

\* transport_material_to_surf's loop over the zipped substance vectors:
\*   surfel_material = surfel_material + weight * ton_material
RECURSIVE ToSurfLoop(_, _, _)
ToSurfLoop(surfs, tons, weight) ==
    IF surfs = <<>> \/ tons = <<>> THEN surfs
    ELSE <<F32Add(Head(surfs), F32Mul(weight, Head(tons)))>>
         \o ToSurfLoop(Tail(surfs), Tail(tons), weight)

\* A deposit of the ton's whole load, whatever the weight.
DepositUnweighted(t, surfel, weight) ==
    [surfel EXCEPT !.substances = ToSurfLoop(surfel.substances, t.substances, One)]

\* The surfel after transport_material_to_surf(ton, surfel, weight): the ton is
\* borrowed immutably.
transport_material_to_surf(t, surfel, weight) ==
    [surfel EXCEPT !.substances = At3(ToSurfLoop, surfel.substances, t.substances, weight)]

\* for surfel_idx in &interacting_surfel_idxs { transport_material_to_ton(..) }
\* as the pair <<surface, ton>> after the loop.
RECURSIVE PickUpLoop(_, _, _, _)
PickUpLoop(surf, t, idxs, weight) ==
    IF idxs = <<>> THEN <<surf, t>>
    ELSE LET r == At3(transport_material_to_ton, surf[Head(idxs)], t, weight)
         IN  PickUpLoop([surf EXCEPT ![Head(idxs)] = r[1]], r[2], Tail(idxs), weight)

\* A settle that deposits into the first interacting surfel only.
SettleFirstOnly(surf, t, idxs, weight) ==
    IF idxs = <<>> THEN surf
    ELSE [surf EXCEPT ![Head(idxs)] = transport_material_to_surf(t, surf[Head(idxs)], weight)]

\* for surfel_idx in &interacting_surfel_idxs { transport_material_to_surf(..) }
RECURSIVE SettleLoop(_, _, _, _)
SettleLoop(surf, t, idxs, weight) ==
    IF idxs = <<>> THEN surf
    ELSE SettleLoop([surf EXCEPT ![Head(idxs)] =
                        At3(transport_material_to_surf, t, surf[Head(idxs)], weight)],
                    t, Tail(idxs), weight)

\* ton.p_straight + ton.p_parabolic + ton.p_flow, added left to right
ProbSum2(t) == F32Add(t.p_straight, t.p_parabolic)
ProbSum3(t) == F32Add(F32Add(t.p_straight, t.p_parabolic), t.p_flow)

Dist(a, b) == IF a < b THEN b - a ELSE a - b

\* Surface::find_within_sphere_indexes: the indexes of the surfels whose
\* position is nearer than radius to the point, in index order.
RECURSIVE WithinFrom(_, _, _, _)
WithinFrom(surf, i, point, radius) ==
    IF i > Len(surf) THEN <<>>
    ELSE (IF Dist(surf[i].position, point) < radius THEN <<i>> ELSE <<>>)
         \o WithinFrom(surf, i + 1, point, radius)

find_within_sphere_indexes(surf, point, radius) == WithinFrom(surf, 1, point, radius)

\* A filter that lets the surfels with substances[0] = 0.0 through as well.
HitMapOfAll(surf) == {surf[i].position : i \in {j \in 1 .. Len(surf) : surf[j].substances[1] >= Zero}}

\* dump_hit_map's filter: the positions of the surfels with substances[0] > 0.0
HitMapOf(surf) == {surf[i].position : i \in {j \in 1 .. Len(surf) : surf[j].substances[1] > Zero}}

(***************************************************************************)
(* Simulation::new and the state run starts from                           *)
(***************************************************************************)
Source(count, probs, radius, subst) ==
    [emission_count |-> count, p_straight |-> probs[1], p_parabolic |-> probs[2],
     p_flow |-> probs[3], interaction_radius |-> radius, substances |-> subst]

SourceLists ==
    {<<Source(n, p, r, s)>> :
        n \in 1 .. MaxEmission, p \in ProbTriples, r \in Radii, s \in TonSubstances}
    \cup {<<Source(MaxEmission, <<One, Zero, Zero>>, 1, s),
            Source(1, <<Quarter, Quarter, Quarter>>, 2, s)>> : s \in TonSubstances}

\* Surface::from_points: every surfel gets the same rates and its own copy of
\* the initial substances.
RECURSIVE SurfaceFromPoints(_, _, _)
SurfaceFromPoints(n, deltas, subst) ==
    IF n = 0 THEN <<>>
    ELSE Append(SurfaceFromPoints(n - 1, deltas, subst),
                [position |-> n, delta_straight |-> deltas[1],
                 delta_parabolic |-> deltas[2], delta_flow |-> deltas[3],
                 substances |-> subst])

NoObs == [effects |-> <<>>, sinks |-> <<>>, traced |-> 0, octrees_built |-> 0,
          draws |-> 0, picked_up |-> FALSE, ended |-> "none",
          no_surfel_stop |-> FALSE, hit_map_writes |-> 0, hit_map |-> {},
          interacted |-> <<>>, failed |-> "none"]

Init ==
    /\ cfg \in [iterations : 0 .. MaxIterations,
                ton_to_surface_interaction_weight : Weights,
                sources : SourceLists,
                scene_effects : {NumEffects},
                scene_sinks : {NumSinks},
                hit_map_path : BOOLEAN,
                initial_substances : SurfelSubstances]
    /\ surface \in {SurfaceFromPoints(NumSurfels, d, cfg.initial_substances) : d \in DeltaTriples}
    /\ scene = 0
    /\ output_path = <<>>
    /\ pc = "run"
    /\ iteration_idx = 0
    /\ octree = NoOctree
    /\ src_idx = 1
    /\ emitted = 0
    /\ ton = NoTon
    /\ hit = NoLocals
    /\ depth = 0
    /\ obs = NoObs
    /\ ret = NoRet
    /\ args = NoArgs

(***************************************************************************)
(* Simulation::run                                                         *)
(***************************************************************************)
\* for iteration_idx in 0..self.iterations: push the directory name and
\* create the directory.
StartIteration ==
    /\ pc = "run"
    /\ iteration_idx < cfg.iterations
    /\ output_path' = Append(output_path, iteration_idx + 1)
    /\ pc' = "trace_particles"
    /\ obs' = [obs EXCEPT !.effects = <<>>, !.sinks = <<>>, !.traced = 0,
                          !.no_surfel_stop = FALSE, !.ended = "none"]
    /\ UNCHANGED <<args, ret, cfg, surface, scene, iteration_idx, octree, src_idx, emitted,
                   ton, hit, depth>>

\* fs::create_dir_all(..).expect(..) panics when the directory cannot be made.
CreateDirFails ==
    /\ pc = "run"
    /\ iteration_idx < cfg.iterations
    /\ output_path' = Append(output_path, iteration_idx + 1)
    /\ pc' = "panicked"
    /\ obs' = [obs EXCEPT !.failed = "create_dir"]
    /\ UNCHANGED <<args, ret, cfg, surface, scene, iteration_idx, octree, src_idx, emitted,
                   ton, hit, depth>>

\* A trace_particles that collects the octree in the first iteration only and
\* uses that one again afterwards.
BuildOctreeOnce ==
    /\ pc = "trace_particles"
    /\ octree' = [built |-> TRUE, of_scene |-> 0]
    /\ obs' = [obs EXCEPT !.octrees_built = IF iteration_idx = 0 THEN @ + 1 ELSE @]
    /\ src_idx' = 1
    /\ emitted' = 0
    /\ pc' = "emit"
    /\ UNCHANGED <<args, ret, cfg, surface, scene, output_path, iteration_idx, ton, hit, depth>>

\* trace_particles: the octree is collected from the scene's triangles.
BuildOctree ==
    /\ pc = "trace_particles"
    /\ octree' = [built |-> TRUE, of_scene |-> scene]
    /\ obs' = [obs EXCEPT !.octrees_built = @ + 1]
    /\ src_idx' = 1
    /\ emitted' = 0
    /\ pc' = "emit"
    /\ UNCHANGED <<args, ret, cfg, surface, scene, output_path, iteration_idx, ton, hit, depth>>

\* sources.iter().flat_map(|src| src.emit()): the source the next ton comes
\* from, skipping the sources that have emitted all their tons (0: none left).
RECURSIVE NextSource(_, _)
NextSource(i, k) ==
    IF i > Len(cfg.sources) THEN 0
    ELSE IF k < cfg.sources[i].emission_count THEN i
    ELSE NextSource(i + 1, 0)

\* An emission that does not wait for the trace in progress to return.
EmitBeforeTraceEnds ==
    /\ pc \in {"emit", "branch"}
    /\ NextSource(src_idx, emitted) # 0
    /\ LET i == NextSource(src_idx, emitted)
           src == cfg.sources[i]
       IN  /\ src_idx' = i
           /\ emitted' = (IF i = src_idx THEN emitted ELSE 0) + 1
           /\ ton' = [p_straight |-> src.p_straight, p_parabolic |-> src.p_parabolic,
                      p_flow |-> src.p_flow,
                      interaction_radius |-> src.interaction_radius,
                      substances |-> src.substances]
    /\ depth' = 1
    /\ hit' = NoLocals
    /\ pc' = "trace_straight"
    /\ obs' = [obs EXCEPT !.draws = 0, !.picked_up = FALSE, !.ended = "none"]
    /\ UNCHANGED <<args, ret, cfg, surface, scene, output_path, iteration_idx, octree>>

EmitTon ==
    /\ pc = "emit"
    /\ NextSource(src_idx, emitted) # 0
    /\ LET i == NextSource(src_idx, emitted)
           src == cfg.sources[i]
       IN  /\ src_idx' = i
           /\ emitted' = (IF i = src_idx THEN emitted ELSE 0) + 1
           /\ ton' = [p_straight |-> src.p_straight, p_parabolic |-> src.p_parabolic,
                      p_flow |-> src.p_flow,
                      interaction_radius |-> src.interaction_radius,
                      substances |-> src.substances]
    /\ depth' = 1
    /\ hit' = NoLocals
    /\ pc' = "trace_straight"
    /\ obs' = [obs EXCEPT !.draws = 0, !.picked_up = FALSE, !.ended = "none"]
    /\ UNCHANGED <<args, ret, cfg, surface, scene, output_path, iteration_idx, octree>>

\* A trace_particles that returns with tons left to emit.
TracingAbandoned ==
    /\ pc = "emit"
    /\ pc' = "effects"
    /\ ton' = NoTon
    /\ octree' = NoOctree
    /\ UNCHANGED <<args, ret, cfg, surface, scene, output_path, iteration_idx, src_idx, emitted,
                   hit, depth, obs>>

\* The emission iterator is exhausted: trace_particles returns.
TracingDone ==
    /\ pc = "emit"
    /\ NextSource(src_idx, emitted) = 0
    /\ pc' = "effects"
    /\ ton' = NoTon
    /\ octree' = NoOctree
    /\ UNCHANGED <<args, ret, cfg, surface, scene, output_path, iteration_idx, src_idx, emitted,
                   hit, depth, obs>>

(***************************************************************************)
(* Simulation::trace_straight and trace_flow                               *)
(***************************************************************************)
\* A call of trace_straight that recurses no further returns through all the
\* enclosing calls (each recursive call is the last statement of its caller)
\* to trace_particles' for_each.
TraceEnds(how) ==
    /\ pc' = "emit"
    /\ depth' = 0
    /\ hit' = NoLocals
    /\ obs' = [obs EXCEPT !.traced = @ + 1, !.ended = how,
                          !.no_surfel_stop = @ \/ (how = "no_surfels")]

\* A miss that still draws the random number before it returns.
EscapeAfterDraw ==
    /\ pc = "trace_straight"
    /\ pc' = "emit"
    /\ depth' = 0
    /\ hit' = NoLocals
    /\ obs' = [obs EXCEPT !.traced = @ + 1, !.ended = "escaped", !.draws = @ + 1]
    /\ UNCHANGED <<args, ret, cfg, surface, scene, output_path, iteration_idx, octree,
                   src_idx, emitted, ton>>

\* octree.ray_intersection_target_and_parameter(..) is None.
TraceEscaped ==
    /\ pc = "trace_straight"
    /\ TraceEnds("escaped")
    /\ UNCHANGED <<args, ret, cfg, surface, scene, output_path, iteration_idx, octree,
                   src_idx, emitted, ton>>

\* A hit without surfels that ends trace_particles instead of the one trace.
NoSurfelsEndsTracing ==
    /\ pc = "trace_straight"
    /\ \E point \in HitPoints :
          find_within_sphere_indexes(surface, point, ton.interaction_radius) = <<>>
    /\ pc' = "effects"
    /\ depth' = 0
    /\ hit' = NoLocals
    /\ obs' = [obs EXCEPT !.traced = @ + 1, !.ended = "no_surfels",
                          !.no_surfel_stop = TRUE]
    /\ UNCHANGED <<args, ret, cfg, surface, scene, output_path, iteration_idx, octree,
                   src_idx, emitted, ton>>

\* The ray hits a triangle but no surfel is within the interaction radius.
TraceNoSurfels ==
    /\ pc = "trace_straight"
    /\ \E point \in HitPoints :
          find_within_sphere_indexes(surface, point, ton.interaction_radius) = <<>>
    /\ TraceEnds("no_surfels")
    /\ UNCHANGED <<args, ret, cfg, surface, scene, output_path, iteration_idx, octree,
                   src_idx, emitted, ton>>

\* The ray hits a triangle near some surfels; a random number is drawn.
TraceHit ==
    /\ pc = "trace_straight"
    /\ \E point \in HitPoints, r \in Randoms :
          LET idxs == find_within_sphere_indexes(surface, point, ton.interaction_radius)
          IN  /\ idxs # <<>>
              /\ hit' = [idxs |-> idxs, random |-> r]
    /\ obs' = [obs EXCEPT !.draws = @ + 1, !.picked_up = FALSE,
                          !.interacted = hit'.idxs]
    /\ pc' = "pickup"
    /\ UNCHANGED <<args, ret, cfg, surface, scene, output_path, iteration_idx, octree,
                   src_idx, emitted, ton, depth>>

\* if random < p_straight + p_parabolic + p_flow: deteriorate with the first
\* interacting surfel, then pick up material from every interacting surfel.
PickUp ==
    /\ pc = "pickup"
    /\ hit.random < ProbSum3(ton)
    /\ \E t1 \in {deteriorate_motion_probabilities(ton, surface[hit.idxs[1]])} :
       \E r \in {PickUpLoop(surface, t1, hit.idxs,
                             cfg.ton_to_surface_interaction_weight)} :
          /\ surface' = r[1]
          /\ ton' = r[2]
    /\ obs' = [obs EXCEPT !.picked_up = TRUE]
    /\ pc' = "branch"
    /\ UNCHANGED <<args, ret, cfg, scene, output_path, iteration_idx, octree, src_idx, emitted,
                   hit, depth>>

SkipPickUp ==
    /\ pc = "pickup"
    /\ ~(hit.random < ProbSum3(ton))
    /\ pc' = "branch"
    /\ UNCHANGED <<args, ret, cfg, surface, scene, output_path, iteration_idx, octree, src_idx,
                   emitted, ton, hit, depth, obs>>

\* The arm of the if / else if chain that the random number selects, with the
\* probabilities the ton has when the chain is reached.
Branch(t, random) ==
    IF random < t.p_straight THEN "straight"
    ELSE IF random < ProbSum2(t) THEN "parabolic"
    ELSE IF random < ProbSum3(t) THEN "flow"
    ELSE "settle"

\* random < p_straight: trace_straight calls itself with the reflected ray.
Reflect ==
    /\ pc = "branch"
    /\ Branch(ton, hit.random) = "straight"
    /\ depth < MaxBounces
    /\ depth' = depth + 1
    /\ hit' = NoLocals
    /\ pc' = "trace_straight"
    /\ UNCHANGED <<args, ret, cfg, surface, scene, output_path, iteration_idx, octree, src_idx,
                   emitted, ton, obs>>

\* A parabolic arm that deposits like the settling arm.
ParabolicDeposits ==
    /\ pc = "branch"
    /\ Branch(ton, hit.random) = "parabolic"
    /\ surface' = SettleLoop(surface, ton, hit.idxs,
                             cfg.ton_to_surface_interaction_weight)
    /\ TraceEnds("parabolic")
    /\ UNCHANGED <<args, ret, cfg, scene, output_path, iteration_idx, octree, src_idx, emitted,
                   ton>>

\* The parabolic arm is empty.
Parabolic ==
    /\ pc = "branch"
    /\ Branch(ton, hit.random) = "parabolic"
    /\ TraceEnds("parabolic")
    /\ UNCHANGED <<args, ret, cfg, surface, scene, output_path, iteration_idx, octree,
                   src_idx, emitted, ton>>

\* trace_flow computes the flow ray and calls trace_straight with it.
Flow ==
    /\ pc = "branch"
    /\ Branch(ton, hit.random) = "flow"
    /\ depth < MaxBounces
    /\ depth' = depth + 1
    /\ hit' = NoLocals
    /\ pc' = "trace_straight"
    /\ UNCHANGED <<args, ret, cfg, surface, scene, output_path, iteration_idx, octree, src_idx,
                   emitted, ton, obs>>

\* else: the ton settles and deposits into every interacting surfel.
Settle ==
    /\ pc = "branch"
    /\ Branch(ton, hit.random) = "settle"
    /\ surface' = SettleLoop(surface, ton, hit.idxs,
                             cfg.ton_to_surface_interaction_weight)
    /\ TraceEnds("settled")
    /\ UNCHANGED <<args, ret, cfg, scene, output_path, iteration_idx, octree, src_idx, emitted,
                   ton>>

(***************************************************************************)
(* perform_iteration_effects, serialize_scene_to_sinks, dump_hit_map       *)
(***************************************************************************)
\* effect.perform_after_iteration(&mut scene, &surface, &output_path)
PerformEffect ==
    /\ pc = "effects"
    /\ Len(obs.effects) < cfg.scene_effects
    /\ scene' = scene + 1
    /\ obs' = [obs EXCEPT !.effects = Append(@, Len(@) + 1)]
    /\ UNCHANGED <<args, ret, cfg, surface, output_path, pc, iteration_idx, octree, src_idx,
                   emitted, ton, hit, depth>>

EffectsDone ==
    /\ pc = "effects"
    /\ Len(obs.effects) = cfg.scene_effects
    /\ pc' = "sinks"
    /\ UNCHANGED <<args, ret, cfg, surface, scene, output_path, iteration_idx, octree, src_idx,
                   emitted, ton, hit, depth, obs>>

\* sink.serialize(&scene, &output_path).unwrap() returns Ok
SerializeToSink ==
    /\ pc = "sinks"
    /\ Len(obs.sinks) < cfg.scene_sinks
    /\ obs' = [obs EXCEPT !.sinks = Append(@, Len(@) + 1)]
    /\ UNCHANGED <<args, ret, cfg, surface, scene, output_path, pc, iteration_idx, octree,
                   src_idx, emitted, ton, hit, depth>>

\* A sink's Err that is dropped instead of unwrapped: the loop goes on.
SinkFailureSwallowed ==
    /\ pc = "sinks"
    /\ Len(obs.sinks) < cfg.scene_sinks
    /\ obs' = [obs EXCEPT !.sinks = Append(@, Len(@) + 1), !.failed = "sink"]
    /\ UNCHANGED <<args, ret, cfg, surface, scene, output_path, pc, iteration_idx, octree,
                   src_idx, emitted, ton, hit, depth>>

\* ... or returns Err, and unwrap panics
SinkFails ==
    /\ pc = "sinks"
    /\ Len(obs.sinks) < cfg.scene_sinks
    /\ obs' = [obs EXCEPT !.sinks = Append(@, Len(@) + 1), !.failed = "sink"]
    /\ pc' = "panicked"
    /\ UNCHANGED <<args, ret, cfg, surface, scene, output_path, iteration_idx, octree,
                   src_idx, emitted, ton, hit, depth>>

\* self.output_path.pop(), and the loop goes on with the next iteration_idx
EndIteration ==
    /\ pc = "sinks"
    /\ Len(obs.sinks) = cfg.scene_sinks
    /\ output_path' = SubSeq(output_path, 1, Len(output_path) - 1)
    /\ iteration_idx' = iteration_idx + 1
    /\ pc' = "run"
    /\ UNCHANGED <<args, ret, cfg, surface, scene, octree, src_idx, emitted, ton, hit, depth, obs>>

\* After the loop: the hit map is written when a path is configured.
DumpHitMap ==
    /\ pc = "run"
    /\ iteration_idx >= cfg.iterations
    /\ cfg.hit_map_path
    /\ obs' = [obs EXCEPT !.hit_map_writes = @ + 1, !.hit_map = HitMapOf(surface)]
    /\ pc' = "done"
    /\ UNCHANGED <<args, ret, cfg, surface, scene, output_path, iteration_idx, octree, src_idx,
                   emitted, ton, hit, depth>>

\* fs::File::create(hit_map_path).unwrap() panics when the file cannot be made
DumpHitMapFails ==
    /\ pc = "run"
    /\ iteration_idx >= cfg.iterations
    /\ cfg.hit_map_path
    /\ pc' = "panicked"
    /\ obs' = [obs EXCEPT !.failed = "hit_map"]
    /\ UNCHANGED <<args, ret, cfg, surface, scene, output_path, iteration_idx, octree, src_idx,
                   emitted, ton, hit, depth>>

NoHitMap ==
    /\ pc = "run"
    /\ iteration_idx >= cfg.iterations
    /\ ~cfg.hit_map_path
    /\ pc' = "done"
    /\ UNCHANGED <<args, ret, cfg, surface, scene, output_path, iteration_idx, octree, src_idx,
                   emitted, ton, hit, depth, obs>>

Next ==
    \/ StartIteration
    \/ CreateDirFails
    \/ BuildOctree
    \/ EmitTon
    \/ TracingDone
    \/ TraceEscaped
    \/ TraceNoSurfels
    \/ TraceHit
    \/ PickUp
    \/ SkipPickUp
    \/ Reflect
    \/ Parabolic
    \/ Flow
    \/ Settle
    \/ PerformEffect
    \/ EffectsDone
    \/ SerializeToSink
    \/ SinkFails
    \/ EndIteration
    \/ DumpHitMap
    \/ DumpHitMapFails
    \/ NoHitMap

Spec == Init /\ [][Next]_vars

(***************************************************************************)
(* The transport functions called on their own: one call of                *)
(* transport_material_to_ton, transport_material_to_surf or                *)
(* deteriorate_motion_probabilities on arguments drawn from the sets       *)
(* below.  ton and surface[1] hold the arguments, ret what the call left   *)
(* in its &mut parameters.                                                 *)
(***************************************************************************)
CallWeights == {PointTwo, Half, One}
CallSurfelSubstances == {<<PointFour, Quarter>>, <<Zero, One>>, <<PointThreeTwo, PointZeroEight>>}
CallTonSubstances == {<<Zero, Zero>>, <<One, Half>>, <<PointZeroEight, PointThreeTwo>>}
CallProbTriples == {<<One, Zero, Zero>>, <<Quarter, Quarter, Quarter>>, <<Half, ThreeQuarters, Zero>>}
CallDeltaTriples == {<<OneAndHalf, Zero, Quarter>>, <<One, Zero, Zero>>,
                     <<Quarter, Quarter, Quarter>>, <<Zero, Zero, Zero>>}

InitCalls ==
    /\ cfg \in [iterations : {0},
                ton_to_surface_interaction_weight : CallWeights,
                sources : {<<>>},
                scene_effects : {0},
                scene_sinks : {0},
                hit_map_path : {FALSE}]
    /\ surface \in {SurfaceFromPoints(1, d, s) :
                        d \in CallDeltaTriples, s \in CallSurfelSubstances}
    /\ ton \in {[p_straight |-> p[1], p_parabolic |-> p[2], p_flow |-> p[3],
                 interaction_radius |-> 1, substances |-> s] :
                        p \in CallProbTriples, s \in CallTonSubstances}
    /\ pc = "call"
    /\ scene = 0
    /\ output_path = <<>>
    /\ iteration_idx = 0
    /\ octree = NoOctree
    /\ src_idx = 1
    /\ emitted = 0
    /\ hit = NoLocals
    /\ depth = 0
    /\ obs = NoObs
    /\ ret = NoRet
    /\ args = NoArgs

CallToTon ==
    /\ pc = "call"
    /\ \E r \in {transport_material_to_ton(surface[1], ton,
                                           cfg.ton_to_surface_interaction_weight)} :
          ret' = [surfel |-> r[1], ton |-> r[2]]
    /\ pc' = "returned_to_ton"
    /\ UNCHANGED <<args, cfg, surface, scene, output_path, iteration_idx, octree, src_idx,
                   emitted, ton, hit, depth, obs>>

CallToSurf ==
    /\ pc = "call"
    /\ ret' = [surfel |-> transport_material_to_surf(
                              ton, surface[1], cfg.ton_to_surface_interaction_weight),
               ton |-> ton]
    /\ pc' = "returned_to_surf"
    /\ UNCHANGED <<args, cfg, surface, scene, output_path, iteration_idx, octree, src_idx,
                   emitted, ton, hit, depth, obs>>

CallDeteriorate ==
    /\ pc = "call"
    /\ ret' = [surfel |-> surface[1],
               ton |-> deteriorate_motion_probabilities(ton, surface[1])]
    /\ pc' = "deteriorated"
    /\ UNCHANGED <<args, cfg, surface, scene, output_path, iteration_idx, octree, src_idx,
                   emitted, ton, hit, depth, obs>>

NextCalls == CallToTon \/ CallToSurf \/ CallDeteriorate

SpecCalls == InitCalls /\ [][NextCalls]_vars

(***************************************************************************)
(* The trace of one ton, bounce after bounce, for as long as it goes on    *)
(***************************************************************************)
\* The counters of the bounces stop counting at BounceCap.
BounceCap == 6
Saturating(n) == IF n < BounceCap THEN n + 1 ELSE n

\* 2^-26, 2^-24 and 2^-22
Tiny26 == F32Lit(101, 0)
Tiny24 == F32Lit(103, 0)
Small22 == F32Lit(105, 0)

\* The probabilities of the ton and the rates of the surfels it meets
TraceCases ==
    {[probs |-> <<One, Zero, Zero>>, deltas |-> <<Zero, Zero, Zero>>],
     [probs |-> <<One, Zero, Zero>>, deltas |-> <<Tiny26, Tiny26, Tiny26>>],
     [probs |-> <<Quarter, Quarter, Half>>, deltas |-> <<Quarter, Quarter, Quarter>>],
     [probs |-> <<Quarter, Half, Quarter>>, deltas |-> <<Quarter, Quarter, Quarter>>],
     [probs |-> <<Small22, Zero, Small22>>, deltas |-> <<Tiny24, Zero, Tiny24>>]}

\* trace_particles has built the octree and calls trace_straight for a ton of
\* the source; closed: every ray hits a triangle with a surfel in the radius.
InitTrace ==
    /\ \E c \in TraceCases, r \in Radii, s \in TonSubstances, closed \in BOOLEAN :
          /\ cfg = [iterations |-> 1, ton_to_surface_interaction_weight |-> One,
                    sources |-> <<Source(1, c.probs, r, s)>>,
                    scene_effects |-> NumEffects, scene_sinks |-> NumSinks,
                    hit_map_path |-> FALSE, initial_substances |-> <<Zero, Zero>>,
                    closed |-> closed]
          /\ surface = SurfaceFromPoints(NumSurfels, c.deltas, <<Zero, Zero>>)
          /\ ton = [p_straight |-> c.probs[1], p_parabolic |-> c.probs[2],
                    p_flow |-> c.probs[3], interaction_radius |-> r, substances |-> s]
    /\ scene = 0
    /\ output_path = <<>>
    /\ pc = "trace_straight"
    /\ iteration_idx = 0
    /\ octree = [built |-> TRUE, of_scene |-> 0]
    /\ src_idx = 1
    /\ emitted = 1
    /\ hit = NoLocals
    /\ depth = 1
    /\ obs = [NoObs EXCEPT !.octrees_built = 1]
    /\ ret = NoRet
    /\ args = NoArgs

EscapeOpen == ~cfg.closed /\ TraceEscaped
NoSurfelsOpen == ~cfg.closed /\ TraceNoSurfels

\* The ray hits a triangle near some surfels; a random number is drawn.
TraceHitUnbounded ==
    /\ pc = "trace_straight"
    /\ \E point \in HitPoints, r \in Randoms :
          LET idxs == find_within_sphere_indexes(surface, point, ton.interaction_radius)
          IN  /\ idxs # <<>>
              /\ hit' = [idxs |-> idxs, random |-> r]
    /\ obs' = [obs EXCEPT !.draws = Saturating(@), !.picked_up = FALSE,
                          !.interacted = hit'.idxs]
    /\ pc' = "pickup"
    /\ UNCHANGED <<args, ret, cfg, surface, scene, output_path, iteration_idx, octree,
                   src_idx, emitted, ton, depth>>

\* random < p_straight: trace_straight calls itself, however deep it is.
ReflectUnbounded ==
    /\ pc = "branch"
    /\ Branch(ton, hit.random) = "straight"
    /\ depth' = Saturating(depth)
    /\ hit' = NoLocals
    /\ pc' = "trace_straight"
    /\ UNCHANGED <<args, ret, cfg, surface, scene, output_path, iteration_idx, octree, src_idx,
                   emitted, ton, obs>>

\* trace_flow calls trace_straight, however deep it is.
FlowUnbounded ==
    /\ pc = "branch"
    /\ Branch(ton, hit.random) = "flow"
    /\ depth' = Saturating(depth)
    /\ hit' = NoLocals
    /\ pc' = "trace_straight"
    /\ UNCHANGED <<args, ret, cfg, surface, scene, output_path, iteration_idx, octree, src_idx,
                   emitted, ton, obs>>

NextTrace ==
    \/ EscapeOpen
    \/ NoSurfelsOpen
    \/ TraceHitUnbounded
    \/ PickUp
    \/ SkipPickUp
    \/ ReflectUnbounded
    \/ Parabolic
    \/ FlowUnbounded
    \/ Settle

\* The program runs on while it has a step to take.
SpecTrace == InitTrace /\ [][NextTrace]_vars /\ WF_vars(NextTrace)

(***************************************************************************)
(* Properties of the single calls (SpecCalls)                              *)
(***************************************************************************)
Weight == cfg.ton_to_surface_interaction_weight
Channels(v) == 1 .. Len(v)

\* C1 as the specification states it: transport_material_to_ton conserves mass
\* exactly in every channel, surfel_after[c] + (ton_after[c] - ton_before[c]) ==
\* surfel_before[c].  The equation is evaluated as the program would evaluate
\* it, in f32; were it true of the exact values, every intermediate would be
\* an f32 and the f32 evaluation would return it unchanged.
C1_ExactConservation ==
    pc = "returned_to_ton" =>
        \A c \in Channels(surface[1].substances) :
            F32Add(ret.surfel.substances[c],
                   F32Sub(ret.ton.substances[c], ton.substances[c]))
                = surface[1].substances[c]

\* C1 as the code has it: in every channel one f32 amount = weight * surfel[c]
\* is taken off the surfel and put on the ton, each result rounded to f32 on
\* its own: surfel_after[c] = fl(surfel[c] - amount) and ton_after[c] =
\* fl(ton[c] + amount).  The surfel does not gain, the ton does not lose, and
\* nothing else of either changes; s = 0.4, w = 0.2 leaves the surfel at 0.32
\* and moves 0.08 plus one unit in the last place.
C1_SameAmountMoved ==
    pc = "returned_to_ton" =>
        /\ Len(ret.surfel.substances) = Len(surface[1].substances)
        /\ Len(ret.ton.substances) = Len(ton.substances)
        /\ \A c \in Channels(surface[1].substances) :
              \E amount \in {F32Mul(Weight, surface[1].substances[c])} :
                /\ ret.surfel.substances[c] = F32Sub(surface[1].substances[c], amount)
                /\ ret.ton.substances[c] = F32Add(ton.substances[c], amount)
                /\ ret.surfel.substances[c] <= surface[1].substances[c]
                /\ ret.ton.substances[c] >= ton.substances[c]
                /\ (surface[1].substances[c] = PointFour /\ Weight = PointTwo)
                      => /\ ret.surfel.substances[c] = PointThreeTwo
                         /\ amount = PointZeroEight + 1
        /\ [ret.surfel EXCEPT !.substances = <<>>] = [surface[1] EXCEPT !.substances = <<>>]
        /\ [ret.ton EXCEPT !.substances = <<>>] = [ton EXCEPT !.substances = <<>>]

\* The example of C1: 0.4 on the surfel, weight 0.2, taken up by a ton that
\* already carries 1.0; the surfel is left with 0.32.
C1_Witness ==
    /\ pc = "returned_to_ton"
    /\ surface[1].substances[1] = PointFour
    /\ Weight = PointTwo
    /\ ton.substances[1] = One
    /\ ret.surfel.substances[1] = PointThreeTwo
    /\ ret.ton.substances[1] > One

\* C3: one deterioration step sets each of p_straight, p_parabolic, p_flow to
\* max(p - delta, 0) with the matching delta of the surfel, none is negative
\* afterwards, and the step changes nothing else of the ton.
Max0(x) == IF x > Zero THEN x ELSE Zero

C3_DeteriorationFloored ==
    pc = "deteriorated" =>
        /\ ret.ton.p_straight = Max0(F32Sub(ton.p_straight, surface[1].delta_straight))
        /\ ret.ton.p_parabolic = Max0(F32Sub(ton.p_parabolic, surface[1].delta_parabolic))
        /\ ret.ton.p_flow = Max0(F32Sub(ton.p_flow, surface[1].delta_flow))
        /\ ret.ton.p_straight >= Zero
        /\ ret.ton.p_parabolic >= Zero
        /\ ret.ton.p_flow >= Zero
        /\ ret.ton.substances = ton.substances
        /\ ret.ton.interaction_radius = ton.interaction_radius
        /\ ret.surfel = surface[1]

\* The example of C3: p_straight = 1.0 and delta_straight = 1.5 give 0.0.
C3_Witness ==
    /\ pc = "deteriorated"
    /\ ton.p_straight = One
    /\ surface[1].delta_straight = OneAndHalf
    /\ ret.ton.p_straight = Zero

(***************************************************************************)
(* Properties of a run (Spec)                                              *)
(***************************************************************************)
Range(seq) == {seq[i] : i \in 1 .. Len(seq)}
Ids(n) == [i \in 1 .. n |-> i]

RECURSIVE EmissionFrom(_)
EmissionFrom(i) ==
    IF i > Len(cfg.sources) THEN 0 ELSE cfg.sources[i].emission_count + EmissionFrom(i + 1)
TotalEmission == EmissionFrom(1)

Tracing == pc \in {"trace_straight", "pickup", "branch"}

\* C2: a bounce in which the ton picked up material (random below the sum of
\* its probabilities) does not end with the ton settled: no deposit is made
\* in a bounce in which a pickup was made.
C2_NoSettleAfterPickUp == ~(obs.ended = "settled" /\ obs.picked_up)

\* C4: when a ton settles, every interacting surfel receives
\* surfel[c] + weight * ton[c] in each channel c, the ton's substances and
\* probabilities stay as they were, and the surfels outside the interaction
\* set are unchanged.
C4_SettleDepositsOneWay ==
    [][(pc = "branch" /\ Branch(ton, hit.random) = "settle") =>
        /\ ton' = ton
        /\ Len(surface') = Len(surface)
        /\ \A i \in 1 .. Len(surface) :
              IF i \in Range(hit.idxs)
              THEN /\ Len(surface'[i].substances) = Len(surface[i].substances)
                   /\ \A c \in Channels(surface[i].substances) :
                         surface'[i].substances[c] =
                            F32Add(surface[i].substances[c],
                                   F32Mul(Weight, ton.substances[c]))
                   /\ [surface'[i] EXCEPT !.substances = <<>>]
                         = [surface[i] EXCEPT !.substances = <<>>]
              ELSE surface'[i] = surface[i]]_vars

\* The first ton of a run settles at its first hit, near one surfel and away
\* from the other: the two surfels, equal until then, differ.
C4_Witness ==
    /\ pc = "emit"
    /\ obs.ended = "settled"
    /\ iteration_idx = 0
    /\ obs.traced = 1
    /\ obs.draws = 1
    /\ ~obs.picked_up
    /\ Weight = PointTwo
    /\ ton.substances[1] = One
    /\ surface[1].substances # surface[2].substances

\* C5: the three motion probabilities of a ton stay within [0, 1], no step of
\* its trace raises one of them, and each is at most its value at emission.
\* (The sources emit probabilities in [0, 1] and the surfels' rates are not
\* negative.)
C5_ProbabilitiesOnlyDecrease ==
    [][/\ Tracing =>
            /\ ton'.p_straight <= ton.p_straight
            /\ ton'.p_parabolic <= ton.p_parabolic
            /\ ton'.p_flow <= ton.p_flow
       /\ ton' # NoTon =>
            /\ Zero <= ton'.p_straight /\ ton'.p_straight <= One
            /\ Zero <= ton'.p_parabolic /\ ton'.p_parabolic <= One
            /\ Zero <= ton'.p_flow /\ ton'.p_flow <= One
            /\ ton'.p_straight <= cfg.sources[src_idx'].p_straight
            /\ ton'.p_parabolic <= cfg.sources[src_idx'].p_parabolic
            /\ ton'.p_flow <= cfg.sources[src_idx'].p_flow]_vars

\* A ton emitted with p_straight = 1.0 has deteriorated twice, at its first
\* and at its second bounce, and is at 0.5.
C5_Witness ==
    /\ pc = "branch"
    /\ depth = 2
    /\ obs.picked_up
    /\ cfg.sources[src_idx].p_straight = One
    /\ ton.p_straight = Half

\* C6: every substance value of every surfel is within [0, 1] in every state
\* of a run (the surface and the sources start with values in [0, 1], the
\* weight is in (0, 1]).
C6_SurfelSubstancesInUnitInterval ==
    \A i \in 1 .. Len(surface) : \A c \in Channels(surface[i].substances) :
        Zero <= surface[i].substances[c] /\ surface[i].substances[c] <= One

\* C7: when the octree reports no intersection the trace of the ton ends at
\* once: the surface and the ton are unchanged, no random number is drawn,
\* no interaction set is computed and no further bounce follows.
C7_EscapeChangesNothing ==
    [][(pc = "trace_straight" /\ obs'.ended = "escaped") =>
        /\ surface' = surface
        /\ ton' = ton
        /\ obs'.draws = obs.draws
        /\ obs'.picked_up = obs.picked_up
        /\ hit' = NoLocals
        /\ depth' = 0
        /\ pc' = "emit"
        /\ obs'.traced = obs.traced + 1]_vars

\* A ton escapes with the ray it was emitted with: nothing was drawn for it
\* and it carries what its source gave it.
C7_Witness ==
    /\ pc = "emit"
    /\ obs.ended = "escaped"
    /\ obs.draws = 0
    /\ obs.traced = 1
    /\ ton.substances = cfg.sources[src_idx].substances
    /\ ton.p_straight = cfg.sources[src_idx].p_straight

\* C8: a hit with no surfel within the interaction radius stops the trace of
\* that ton only: the step leaves the surface and the ton unchanged and draws
\* nothing, the run goes on with the next ton, tracing never aborts the run,
\* and an iteration in which it happened reaches its effects only with every
\* ton traced and ends only with every effect and every sink invoked.
C8_NoSurfelsStopsOneTrace ==
    [][/\ (pc = "trace_straight" /\ obs'.ended = "no_surfels") =>
            /\ surface' = surface
            /\ ton' = ton
            /\ obs'.draws = obs.draws
            /\ pc' = "emit"
            /\ obs'.traced = obs.traced + 1
       /\ (Tracing \/ pc = "emit") => pc' # "panicked"
       /\ (obs.no_surfel_stop /\ pc = "emit" /\ pc' # "trace_straight") =>
            /\ pc' = "effects"
            /\ obs.traced = TotalEmission
       /\ (obs.no_surfel_stop /\ pc = "sinks" /\ pc' = "run") =>
            /\ obs.traced = TotalEmission
            /\ obs.effects = Ids(cfg.scene_effects)
            /\ obs.sinks = Ids(cfg.scene_sinks)]_vars

\* The first ton of an iteration stopped for want of surfels, the second one
\* settled, and the iteration has run its effects and sinks.
C8_Witness ==
    /\ pc = "run"
    /\ iteration_idx = 1
    /\ obs.no_surfel_stop
    /\ obs.ended = "settled"
    /\ obs.traced = 2
    /\ obs.effects = Ids(cfg.scene_effects)
    /\ obs.sinks = Ids(cfg.scene_sinks)

C10_SinksAfterLastIteration ==
    obs.sinks # <<>> => iteration_idx + 1 >= cfg.iterations

\* The number of tons the emission iterator has yielded in this iteration:
\* all of the sources before src_idx and emitted of that one.
RECURSIVE EmittedBefore(_)
EmittedBefore(i) ==
    IF i <= 1 THEN 0 ELSE cfg.sources[i - 1].emission_count + EmittedBefore(i - 1)
EmittedSoFar == EmittedBefore(src_idx) + emitted

\* C11: tons are traced one after the other: while a ton is traced, all tons
\* emitted before it in the iteration have finished their whole bounce chain,
\* and a ton is emitted only when the one before it has finished.
C11_OneTonAtATime ==
    /\ Tracing => (ton # NoTon /\ EmittedSoFar = obs.traced + 1)
    /\ pc = "emit" => EmittedSoFar = obs.traced

\* The second ton of an iteration is in its second bounce, the first one has
\* finished.
C11_Witness ==
    /\ pc = "branch"
    /\ depth = 2
    /\ EmittedSoFar = 2
    /\ obs.traced = 1

\* C12 as the specification states it: the octree is built once per run, so
\* a run of one or more iterations that has ended has built exactly one.
C12_OctreeBuiltOncePerRun ==
    (pc = "done" /\ cfg.iterations >= 1) => obs.octrees_built = 1

\* C12 as the code has it: the octree is built once per iteration, at the
\* start of trace_particles, from the scene as the effects of the iterations
\* before left it; a run has built as many octrees as it has started to
\* trace iterations, and the octree the tons of an iteration are traced
\* against is the one built for that iteration from the current scene.
C12_OctreeBuiltPerIteration ==
    /\ pc \in {"run", "trace_particles", "done"} => obs.octrees_built = iteration_idx
    /\ (pc \in {"emit", "effects", "sinks"} \/ Tracing) =>
            obs.octrees_built = iteration_idx + 1
    /\ (pc = "emit" \/ Tracing) =>
            /\ octree.built
            /\ octree.of_scene = scene
            /\ scene = iteration_idx * cfg.scene_effects
    /\ pc = "done" => obs.octrees_built = cfg.iterations

\* A run of two iterations has ended and has built two octrees.
C12_Witness ==
    /\ pc = "done"
    /\ cfg.iterations = 2
    /\ obs.octrees_built = 2

\* C13: with a hit map path configured the hit map is written exactly once,
\* after the last iteration, and holds the positions of exactly the surfels
\* whose first substance is greater than 0 then; without a path nothing is
\* written.
C13_HitMapWrittenOnce ==
    /\ obs.hit_map_writes <= 1
    /\ pc = "done" => obs.hit_map_writes = (IF cfg.hit_map_path THEN 1 ELSE 0)
    /\ obs.hit_map_writes = 1 =>
            /\ pc = "done"
            /\ cfg.hit_map_path
            /\ iteration_idx = cfg.iterations
            /\ \A i \in 1 .. Len(surface) :
                  surface[i].position \in obs.hit_map <=> surface[i].substances[1] > Zero
            /\ obs.hit_map \subseteq {surface[i].position : i \in 1 .. Len(surface)}
    /\ obs.hit_map_writes = 0 => obs.hit_map = {}

\* A run has ended with the first surfel hit and the second one not: the hit
\* map holds the position of the first one only.
C13_Witness ==
    /\ pc = "done"
    /\ cfg.iterations >= 1
    /\ obs.hit_map_writes = 1
    /\ surface[1].substances[1] > Zero
    /\ surface[2].substances[1] = Zero
    /\ obs.hit_map = {surface[1].position}

\* The end-to-end scenario: one iteration, one source emitting one ton with
\* p_straight = 1.0 and nothing else, a positive first substance on the ton,
\* none on the surface, the hit map configured, and the run has ended.
EndToEndRun ==
    /\ pc = "done"
    /\ cfg.iterations = 1
    /\ cfg.hit_map_path
    /\ Len(cfg.sources) = 1
    /\ cfg.sources[1].emission_count = 1
    /\ cfg.sources[1].p_straight = One
    /\ cfg.sources[1].p_parabolic = Zero
    /\ cfg.sources[1].p_flow = Zero
    /\ cfg.sources[1].substances[1] > Zero
    /\ cfg.initial_substances[1] = Zero

Positions(idxs) == {surface[i].position : i \in Range(idxs)}

\* C14 as the specification states it: in the end-to-end scenario, when the
\* ton's ray has met the scene once, near some surfels, at least one surfel of
\* that interaction set has a positive first substance after the run and the
\* hit map holds exactly the surfels of that set.
C14_EndToEndDeposit ==
    (EndToEndRun /\ obs.draws = 1) =>
        /\ \E i \in Range(obs.interacted) : surface[i].substances[1] > Zero
        /\ obs.hit_map = Positions(obs.interacted)

\* C14 as the code has it: the above holds when the surfels' delta_straight
\* is at least the ton's p_straight (1.0), so that the ton settles at its
\* first hit: then the ton meets the scene once only, every surfel of the
\* interaction set (and no other) has received weight * the ton's substance,
\* and the hit map holds exactly the surfels of that set.
C14_EndToEndDepositAtFirstHit ==
    (/\ EndToEndRun
     /\ obs.draws >= 1
     /\ \A i \in 1 .. Len(surface) : surface[i].delta_straight >= One) =>
        /\ obs.draws = 1
        /\ obs.ended = "settled"
        /\ obs.interacted # <<>>
        /\ \A i \in 1 .. Len(surface) :
              surface[i].substances[1] =
                 IF i \in Range(obs.interacted)
                 THEN F32Mul(Weight, cfg.sources[1].substances[1])
                 ELSE Zero
        /\ obs.hit_map = Positions(obs.interacted)
        /\ obs.hit_map # {}

\* The ton settled next to both surfels: both are on the hit map.
C14_Witness ==
    /\ EndToEndRun
    /\ surface[1].delta_straight = One
    /\ obs.draws = 1
    /\ obs.interacted = <<1, 2>>
    /\ surface[2].substances[1] = PointTwo
    /\ obs.hit_map = {surface[1].position, surface[2].position}

\* C15: a failure to create an iteration's output directory or of a sink to
\* serialize stops the run: no step is taken after a failure.  The failed
\* directory creation of iteration n comes before anything of iteration n
\* (no ton traced, no effect, no sink); after a failed sink there is no later
\* sink, no later iteration and no hit map.
C15_FailureStopsRun ==
    [][/\ obs.failed = "none"
       /\ obs'.failed # "none" => pc' = "panicked"
       /\ obs'.failed = "create_dir" =>
            /\ pc = "run"
            /\ iteration_idx < cfg.iterations
            /\ obs' = [obs EXCEPT !.failed = "create_dir"]
            /\ UNCHANGED <<surface, scene, iteration_idx, octree, ton>>
       /\ obs'.failed = "sink" =>
            /\ pc = "sinks"
            /\ obs'.hit_map_writes = 0
            /\ UNCHANGED <<surface, scene, iteration_idx>>]_vars

\* The first sink of the first of two iterations has failed: the run has
\* stopped there.
C15_Witness ==
    /\ pc = "panicked"
    /\ obs.failed = "sink"
    /\ cfg.iterations = 2
    /\ iteration_idx = 0
    /\ Len(obs.sinks) = 1
    /\ obs.hit_map_writes = 0

(***************************************************************************)
(* The geometry functions called on their own (src/src/geom): args holds   *)
(* the function and its arguments, ret its result.  A Vector3<f32> is a    *)
(* triple of f32.                                                          *)
(***************************************************************************)
\* the longest point sequence and the longest box sequence that is tried
MaxPoints == 3
MaxBoxes == 2

Aabb(min, max) == [min |-> min, max |-> max]

\* Aabb { min: (INFINITY, INFINITY, INFINITY),
\*        max: (NEG_INFINITY, NEG_INFINITY, NEG_INFINITY) }
EmptyAabb == Aabb(<<F32Inf, F32Inf, F32Inf>>, <<-F32Inf, -F32Inf, -F32Inf>>)

\* if p.x < min.x { p.x } else { min.x }, and the same with >
Lesser(p, acc) == IF p < acc THEN p ELSE acc
Greater(p, acc) == IF p > acc THEN p ELSE acc

\* A fold of the points that starts from the box at the origin.
RECURSIVE FromPointsFromOrigin(_)
FromPointsFromOrigin(points) ==
    IF points = <<>> THEN Aabb(<<Zero, Zero, Zero>>, <<Zero, Zero, Zero>>)
    ELSE LET acc == FromPointsFromOrigin(SubSeq(points, 1, Len(points) - 1))
             p == points[Len(points)]
         IN  Aabb([k \in 1 .. 3 |-> Lesser(p[k], acc.min[k])],
                  [k \in 1 .. 3 |-> Greater(p[k], acc.max[k])])

\* Aabb::from_points: the fold over the points, the last point folded last
RECURSIVE from_points(_)
from_points(points) ==
    IF points = <<>> THEN EmptyAabb
    ELSE LET acc == from_points(SubSeq(points, 1, Len(points) - 1))
             p == points[Len(points)]
         IN  Aabb(<<Lesser(p[1], acc.min[1]), Lesser(p[2], acc.min[2]),
                    Lesser(p[3], acc.min[3])>>,
                  <<Greater(p[1], acc.max[1]), Greater(p[2], acc.max[2]),
                    Greater(p[3], acc.max[3])>>)

\* Aabb::union: the fold over the boxes
RECURSIVE union(_)
union(aabbs) ==
    IF aabbs = <<>> THEN EmptyAabb
    ELSE LET acc == union(SubSeq(aabbs, 1, Len(aabbs) - 1))
             b == aabbs[Len(aabbs)]
         IN  Aabb(<<Lesser(b.min[1], acc.min[1]), Lesser(b.min[2], acc.min[2]),
                    Lesser(b.min[3], acc.min[3])>>,
                  <<Greater(b.max[1], acc.max[1]), Greater(b.max[2], acc.max[2]),
                    Greater(b.max[3], acc.max[3])>>)

\* The f32 of an integer of at most 24 bits
IntToF32(n) == RoundSigned(n, 150)
VecToF32(v) == <<IntToF32(v[1]), IntToF32(v[2]), IntToF32(v[3])>>

\* let epsilon = 0.0000001;
epsilon == F32Lit(103, 5685141)

\* Vector3 - Vector3, Vector3::cross and Vector3::dot
VecSub(a, b) == <<F32Sub(a[1], b[1]), F32Sub(a[2], b[2]), F32Sub(a[3], b[3])>>
cross(a, b) ==
    <<F32Sub(F32Mul(a[2], b[3]), F32Mul(a[3], b[2])),
      F32Sub(F32Mul(a[3], b[1]), F32Mul(a[1], b[3])),
      F32Sub(F32Mul(a[1], b[2]), F32Mul(a[2], b[1]))>>
dot(a, b) == F32Add(F32Add(F32Mul(a[1], b[1]), F32Mul(a[2], b[2])), F32Mul(a[3], b[3]))

None == [some |-> FALSE]
Some(x) == [some |-> TRUE, value |-> x]

\* The intersection without the rejection of parameters below epsilon.
RayIntersectionAnyParameter(vertices, ray_origin, ray_direction) ==
    LET edge1 == VecSub(vertices[2], vertices[1])
        edge2 == VecSub(vertices[3], vertices[1])
        WithA(h, a) ==
            IF a > -epsilon /\ a < epsilon THEN None
            ELSE LET WithU(f, s, u) ==
                         IF u < Zero \/ u > One THEN None
                         ELSE LET WithV(q, v) ==
                                      IF v < Zero \/ F32Add(u, v) > One THEN None
                                      ELSE Some(F32Mul(f, dot(edge2, q)))
                              IN  CHOOSE r \in {WithV(q, F32Mul(f, dot(ray_direction, q))) :
                                                  q \in {cross(s, edge1)}} : TRUE
                 IN  CHOOSE r \in {WithU(f, s, F32Mul(f, dot(s, h))) :
                                     f \in {F32Div(One, a)},
                                     s \in {VecSub(ray_origin, vertices[1])}} : TRUE
    IN  CHOOSE r \in {WithA(h, dot(edge1, h)) : h \in {cross(ray_direction, edge2)}} : TRUE

\* Triangle::ray_intersection_parameter
ray_intersection_parameter(vertices, ray_origin, ray_direction) ==
    LET edge1 == VecSub(vertices[2], vertices[1])
        edge2 == VecSub(vertices[3], vertices[1])
        WithA(h, a) ==
            IF a > -epsilon /\ a < epsilon THEN None
            ELSE LET WithU(f, s, u) ==
                         IF u < Zero \/ u > One THEN None
                         ELSE LET WithT(t) == IF t < epsilon THEN None ELSE Some(t)
                                  WithV(q, v) ==
                                      IF v < Zero \/ F32Add(u, v) > One THEN None
                                      ELSE CHOOSE r \in {WithT(t) :
                                               t \in {F32Mul(f, dot(edge2, q))}} : TRUE
                              IN  CHOOSE r \in {WithV(q, F32Mul(f, dot(ray_direction, q))) :
                                                  q \in {cross(s, edge1)}} : TRUE
                 IN  CHOOSE r \in {WithU(f, s, F32Mul(f, dot(s, h))) :
                                     f \in {F32Div(One, a)},
                                     s \in {VecSub(ray_origin, vertices[1])}} : TRUE
    IN  CHOOSE r \in {WithA(h, dot(edge1, h)) : h \in {cross(ray_direction, edge2)}} : TRUE

\* Rays and triangles with integer coordinates: the triangle and the ray of
\* the tests, a triangle whose determinant is 9, one behind the origins and
\* one in a plane that holds the z axis.
TrianglePool == {<<<<-1, -1, 100>>, <<1, -1, 100>>, <<0, 1, 200>>>>,
                 <<<<0, 0, 1>>, <<3, 0, 1>>, <<0, 3, 1>>>>,
                 <<<<-1, -1, -2>>, <<2, -1, -2>>, <<-1, 2, -2>>>>,
                 <<<<0, 0, 0>>, <<1, 0, 0>>, <<0, 0, 1>>>>}
OriginPool == {<<0, 0, 0>>, <<1, 1, 0>>, <<0, 0, 2>>, <<1, 0, -1>>}
DirectionPool == {<<0, 0, 1>>, <<0, 0, -1>>, <<1, 1, 1>>, <<1, 0, 0>>, <<1, 2, 3>>,
                  <<0, 1, 2>>}
RayArgs == {[fn |-> "ray", vertices |-> tri, ray_origin |-> o, ray_direction |-> d] :
              tri \in TrianglePool, o \in OriginPool, d \in DirectionPool}

RECURSIVE SeqsUpTo(_, _)
SeqsUpTo(S, n) ==
    IF n = 0 THEN {<<>>}
    ELSE SeqsUpTo(S, n - 1) \cup {Append(s, x) : s \in SeqsUpTo(S, n - 1), x \in S}

TriToF32(tri) == <<VecToF32(tri[1]), VecToF32(tri[2]), VecToF32(tri[3])>>

\* The octree over the triangles of the scene.  A node is a leaf with the
\* triangles attributed to it or has eight children, and has its bounding
\* box; a node is split while it holds more than LeafPopulation triangles and
\* is less than MaxDepth deep.  Boxes are kept in units of 1/Scale so that
\* the centres of the splits are integers.
LeafPopulation == 1
MaxDepth == 2
Scale == 2 ^ MaxDepth

MinOf(S) == CHOOSE x \in S : \A y \in S : x <= y
MaxOf(S) == CHOOSE x \in S : \A y \in S : x >= y
BoxOfPoints(points) ==
    IF points = {} THEN [min |-> <<0, 0, 0>>, max |-> <<0, 0, 0>>]
    ELSE [min |-> [k \in 1 .. 3 |-> MinOf({Scale * p[k] : p \in points})],
          max |-> [k \in 1 .. 3 |-> MaxOf({Scale * p[k] : p \in points})]]
TriBox(tri) == BoxOfPoints({tri[1], tri[2], tri[3]})
SceneBox(triangles) ==
    BoxOfPoints(UNION {{triangles[i][1], triangles[i][2], triangles[i][3]} :
                       i \in 1 .. Len(triangles)})
Overlaps(a, b) == \A k \in 1 .. 3 : a.min[k] <= b.max[k] /\ b.min[k] <= a.max[k]

\* The n-th octant of a box: bit k of n - 1 selects the upper half in axis k.
Octant(box, n) ==
    LET centre == [k \in 1 .. 3 |-> (box.min[k] + box.max[k]) \div 2]
        upper == [k \in 1 .. 3 |-> ((n - 1) \div (2 ^ (k - 1))) % 2 = 1]
    IN  [min |-> [k \in 1 .. 3 |-> IF upper[k] THEN centre[k] ELSE box.min[k]],
         max |-> [k \in 1 .. 3 |-> IF upper[k] THEN box.max[k] ELSE centre[k]]]

\* Every triangle is attributed to every leaf its bounding box overlaps.
RECURSIVE BuildNode(_, _, _, _)
BuildNode(triangles, idxs, box, level) ==
    IF Cardinality(idxs) <= LeafPopulation \/ level = MaxDepth
    THEN [leaf |-> TRUE, box |-> box, triangles |-> idxs]
    ELSE [leaf |-> FALSE, box |-> box,
          children |-> [n \in 1 .. 8 |->
              BuildNode(triangles,
                        {i \in idxs : Overlaps(TriBox(triangles[i]), Octant(box, n))},
                        Octant(box, n), level + 1)]]

Octree(triangles) == BuildNode(triangles, 1 .. Len(triangles), SceneBox(triangles), 0)

\* The ray origin + t * direction, t >= 0, meets the closed box.  If it does,
\* it does so at t = 0 or where it crosses the plane of a face, t = n / m.
RayMeetsBox(box, origin, direction) ==
    LET o == [k \in 1 .. 3 |-> Scale * origin[k]]
        d == [k \in 1 .. 3 |-> Scale * direction[k]]
        Crossings == {<<0, 1>>} \cup
            UNION {{<<(box.min[k] - o[k]) * (IF d[k] < 0 THEN -1 ELSE 1),
                      IF d[k] < 0 THEN -d[k] ELSE d[k]>>,
                    <<(box.max[k] - o[k]) * (IF d[k] < 0 THEN -1 ELSE 1),
                      IF d[k] < 0 THEN -d[k] ELSE d[k]>>} :
                   k \in {j \in 1 .. 3 : d[j] # 0}}
    IN  \E c \in Crossings :
            /\ c[1] >= 0
            /\ \A k \in 1 .. 3 :
                  /\ box.min[k] * c[2] <= o[k] * c[2] + c[1] * d[k]
                  /\ o[k] * c[2] + c[1] * d[k] <= box.max[k] * c[2]

\* The hits of the triangles of a leaf, as <<triangle, parameter>>
LeafHits(idxs, triangles, origin, direction) ==
    LET Hit(i) == ray_intersection_parameter(TriToF32(triangles[i]), VecToF32(origin),
                                             VecToF32(direction))
    IN  {<<i, Hit(i).value>> : i \in {j \in idxs : Hit(j).some}}

\* A query that descends only into the first child that reports a hit.
RECURSIVE NodeHitsFirstChild(_, _, _, _)
NodeHitsFirstChild(node, triangles, origin, direction) ==
    IF ~RayMeetsBox(node.box, origin, direction) THEN {}
    ELSE IF node.leaf THEN LeafHits(node.triangles, triangles, origin, direction)
    ELSE LET hitting == {n \in 1 .. 8 :
                 NodeHitsFirstChild(node.children[n], triangles, origin, direction) # {}}
         IN  IF hitting = {} THEN {}
             ELSE NodeHitsFirstChild(node.children[MinOf(hitting)], triangles, origin,
                                     direction)

\* The query visits the nodes whose bounding box the ray meets and collects
\* the hits of the triangles of the leaves.
RECURSIVE NodeHits(_, _, _, _)
NodeHits(node, triangles, origin, direction) ==
    IF ~RayMeetsBox(node.box, origin, direction) THEN {}
    ELSE IF node.leaf THEN LeafHits(node.triangles, triangles, origin, direction)
    ELSE UNION {NodeHits(node.children[n], triangles, origin, direction) : n \in 1 .. 8}

\* Octree::ray_intersection_target_and_parameter: the hits with the smallest
\* parameter among the hits of the whole tree (none: no hit).
ray_intersection_target_and_parameter(triangles, origin, direction) ==
    LET Nearest(hits) == {h \in hits : \A g \in hits : h[2] <= g[2]}
    IN  CHOOSE r \in {Nearest(hits) :
                        hits \in {NodeHits(Octree(triangles), triangles, origin, direction)}} :
            TRUE

\* Scenes of triangles in the planes z = 1, z = 5 and z = -2 and one in the
\* plane y = 0, and rays that cross several of them in either direction.
MaxTriangles == 2
ScenePool == {<<<<0, 0, 1>>, <<3, 0, 1>>, <<0, 3, 1>>>>,
              <<<<0, 0, 5>>, <<3, 0, 5>>, <<0, 3, 5>>>>,
              <<<<-1, -1, -2>>, <<2, -1, -2>>, <<-1, 2, -2>>>>,
              <<<<0, 0, 0>>, <<1, 0, 0>>, <<0, 0, 1>>>>}
QueryOrigins == {<<1, 1, 0>>, <<1, 1, 7>>, <<0, 0, 0>>, <<1, 1, -3>>}
QueryDirections == {<<0, 0, 1>>, <<0, 0, -1>>, <<1, 1, 1>>, <<0, -1, 0>>}
OctreeArgs == {[fn |-> "octree", triangles |-> ts, origin |-> o, direction |-> d] :
                 ts \in SeqsUpTo(ScenePool, MaxTriangles), o \in QueryOrigins,
                 d \in QueryDirections}

PointPool == {<<Zero, Zero, Zero>>, <<One, -One, Half>>, <<-One, One, Zero>>,
              <<Half, Half, -Half>>}
BoxPool == {from_points(ps) : ps \in SeqsUpTo(PointPool, 2)}

FromPointsArgs == {[fn |-> "from_points", points |-> ps] : ps \in SeqsUpTo(PointPool, MaxPoints)}
UnionArgs == {[fn |-> "union", aabbs |-> bs] : bs \in SeqsUpTo(BoxPool, MaxBoxes)}

InitGeom ==
    /\ args \in FromPointsArgs \cup UnionArgs \cup RayArgs \cup OctreeArgs
    /\ pc = "call"
    /\ ret = NoRet
    /\ cfg = [iterations |-> 0, ton_to_surface_interaction_weight |-> One,
              sources |-> <<>>, scene_effects |-> 0, scene_sinks |-> 0,
              hit_map_path |-> FALSE, initial_substances |-> <<>>]
    /\ surface = <<>>
    /\ scene = 0
    /\ output_path = <<>>
    /\ iteration_idx = 0
    /\ octree = NoOctree
    /\ src_idx = 1
    /\ emitted = 0
    /\ ton = NoTon
    /\ hit = NoLocals
    /\ depth = 0
    /\ obs = NoObs

Returns(value) ==
    /\ ret' = value
    /\ pc' = "returned"
    /\ UNCHANGED <<args, cfg, surface, scene, output_path, iteration_idx, octree, src_idx,
                   emitted, ton, hit, depth, obs>>

CallFromPoints ==
    /\ pc = "call"
    /\ args.fn = "from_points"
    /\ Returns(from_points(args.points))

CallUnion ==
    /\ pc = "call"
    /\ args.fn = "union"
    /\ Returns(union(args.aabbs))

CallRayIntersection ==
    /\ pc = "call"
    /\ args.fn = "ray"
    /\ Returns(ray_intersection_parameter(
                   <<VecToF32(args.vertices[1]), VecToF32(args.vertices[2]),
                     VecToF32(args.vertices[3])>>,
                   VecToF32(args.ray_origin), VecToF32(args.ray_direction)))

\* The head of trace_straight on the octree of the scene's triangles: the
\* nearest hit and let intersection_point = origin + direction * param;
CallNearestIntersection ==
    /\ pc = "call"
    /\ args.fn = "octree"
    /\ LET nearest == ray_intersection_target_and_parameter(args.triangles, args.origin,
                                                            args.direction)
       IN  IF nearest = {} THEN Returns(None)
           ELSE \E h \in nearest :
                  Returns([some |-> TRUE, hit_tri |-> h[1], param |-> h[2],
                           intersection_point |->
                               <<F32Add(IntToF32(args.origin[1]),
                                        F32Mul(IntToF32(args.direction[1]), h[2])),
                                 F32Add(IntToF32(args.origin[2]),
                                        F32Mul(IntToF32(args.direction[2]), h[2])),
                                 F32Add(IntToF32(args.origin[3]),
                                        F32Mul(IntToF32(args.direction[3]), h[2]))>>])

NextGeom == CallFromPoints \/ CallUnion \/ CallRayIntersection \/ CallNearestIntersection

SpecGeom == InitGeom /\ [][NextGeom]_vars

\* C16: from_points of no points and union of no boxes are the box with min
\* at +infinity and max at -infinity; from_points of some points has in each
\* component the least and the greatest of the points' values, so min <= max
\* and every point is enclosed (and union of some boxes the least of the
\* mins and the greatest of the maxes).
C16_AabbOfSequence ==
    pc = "returned" =>
        /\ args.fn = "from_points" =>
              IF args.points = <<>>
              THEN ret = [min |-> <<F32Inf, F32Inf, F32Inf>>,
                          max |-> <<-F32Inf, -F32Inf, -F32Inf>>]
              ELSE \A k \in 1 .. 3 :
                     /\ \E p \in Range(args.points) : ret.min[k] = p[k]
                     /\ \E p \in Range(args.points) : ret.max[k] = p[k]
                     /\ \A p \in Range(args.points) :
                           ret.min[k] <= p[k] /\ p[k] <= ret.max[k]
                     /\ ret.min[k] <= ret.max[k]
        /\ args.fn = "union" =>
              IF args.aabbs = <<>>
              THEN ret = [min |-> <<F32Inf, F32Inf, F32Inf>>,
                          max |-> <<-F32Inf, -F32Inf, -F32Inf>>]
              ELSE \A k \in 1 .. 3 :
                     /\ \E b \in Range(args.aabbs) : ret.min[k] = b.min[k]
                     /\ \E b \in Range(args.aabbs) : ret.max[k] = b.max[k]
                     /\ \A b \in Range(args.aabbs) :
                           ret.min[k] <= b.min[k] /\ b.max[k] <= ret.max[k]

\* The box of three points with different least and greatest components.
C16_Witness ==
    /\ pc = "returned"
    /\ args.fn = "from_points"
    /\ args.points = <<<<One, -One, Half>>, <<-One, One, Zero>>, <<Half, Half, -Half>>>>
    /\ ret.min = <<-One, -One, -Half>>
    /\ ret.max = <<One, One, Half>>

\* The same quantities in exact integer arithmetic: the determinant A and the
\* numerators U, V, T of the barycentric coordinates u = U/A, v = V/A and of
\* the ray parameter t = T/A of the point where the ray meets the plane.
IntSub(a, b) == <<a[1] - b[1], a[2] - b[2], a[3] - b[3]>>
IntCross(a, b) == <<a[2] * b[3] - a[3] * b[2], a[3] * b[1] - a[1] * b[3],
                    a[1] * b[2] - a[2] * b[1]>>
IntDot(a, b) == a[1] * b[1] + a[2] * b[2] + a[3] * b[3]
ExactA == IntDot(IntSub(args.vertices[2], args.vertices[1]),
                 IntCross(args.ray_direction, IntSub(args.vertices[3], args.vertices[1])))
ExactU == IntDot(IntSub(args.ray_origin, args.vertices[1]),
                 IntCross(args.ray_direction, IntSub(args.vertices[3], args.vertices[1])))
ExactV == IntDot(args.ray_direction,
                 IntCross(IntSub(args.ray_origin, args.vertices[1]),
                          IntSub(args.vertices[2], args.vertices[1])))
ExactT == IntDot(IntSub(args.vertices[3], args.vertices[1]),
                 IntCross(IntSub(args.ray_origin, args.vertices[1]),
                          IntSub(args.vertices[2], args.vertices[1])))
SignOf(n) == IF n < 0 THEN -1 ELSE 1
RayCalled == pc = "returned" /\ args.fn = "ray"
TestRay(direction) ==
    /\ args.vertices = <<<<-1, -1, 100>>, <<1, -1, 100>>, <<0, 1, 200>>>>
    /\ args.ray_origin = <<0, 0, 0>>
    /\ args.ray_direction = direction

\* C18: Triangle::ray_intersection_parameter returns Some(t) only with
\* t >= epsilon and with the point of the ray at t inside the triangle (the
\* ray meets the plane with barycentric coordinates u >= 0, v >= 0,
\* u + v <= 1, and t is its parameter T/A up to the rounding of 1.0 / a and of
\* the product); it returns None when the ray is parallel to the plane and
\* when the triangle's plane is behind the origin.  The ray from the origin
\* along (0,0,1) hits the triangle of the test at (0,0,150), the ray along
\* (0,0,-1) misses it.
C18_RayIntersectionParameter ==
    RayCalled =>
        /\ ret.some =>
              /\ ret.value >= epsilon
              /\ ret.value > Zero
              /\ ExactA # 0
              /\ SignOf(ExactA) * ExactU >= 0
              /\ SignOf(ExactA) * ExactV >= 0
              /\ SignOf(ExactA) * (ExactU + ExactV) <= SignOf(ExactA) * ExactA
              /\ SignOf(ExactA) * ExactT > 0
              /\ ret.value - F32Div(IntToF32(ExactT), IntToF32(ExactA)) \in -2 .. 2
        /\ ExactA = 0 => ret = None
        /\ (ExactA # 0 /\ SignOf(ExactA) * ExactT <= 0) => ret = None
        /\ TestRay(<<0, 0, 1>>) =>
              /\ ret = Some(IntToF32(150))
              /\ [k \in 1 .. 3 |-> F32Add(IntToF32(args.ray_origin[k]),
                       F32Mul(IntToF32(args.ray_direction[k]), ret.value))]
                 = VecToF32(<<0, 0, 150>>)
        /\ TestRay(<<0, 0, -1>>) => ret = None

\* A hit whose determinant is 9, so that 1.0 / a is rounded, and that is not
\* the ray of the test.
C18_Witness ==
    /\ RayCalled
    /\ ret.some
    /\ ExactA \in {9, -9}
    /\ ExactU > 0
    /\ ExactV > 0

\* C19: when the drawn number selects the parabolic arm
\* (p_straight <= random < p_straight + p_parabolic), the trace of the ton
\* ends in that bounce: no new ray is traced (no further draw, the call
\* depth returns to 0 and the next step is the emission iterator), nothing is
\* deposited and the surface and the ton stay as they were when the arm was
\* chosen.
C19_ParabolicEndsTrace ==
    [][(/\ pc = "branch"
        /\ ~(hit.random < ton.p_straight)
        /\ hit.random < F32Add(ton.p_straight, ton.p_parabolic)) =>
        /\ surface' = surface
        /\ ton' = ton
        /\ obs'.draws = obs.draws
        /\ obs'.picked_up = obs.picked_up
        /\ obs'.ended = "parabolic"
        /\ obs'.traced = obs.traced + 1
        /\ hit' = NoLocals
        /\ depth' = 0
        /\ pc' = "emit"]_vars

\* A ton that carries material ended in the parabolic arm next to a surfel.
C19_Witness ==
    /\ pc = "emit"
    /\ obs.ended = "parabolic"
    /\ obs.interacted # <<>>
    /\ \E c \in Channels(ton.substances) : ton.substances[c] > Zero

\* The hits of the ray on every triangle of the scene, one by one
AllHits ==
    LET Hit(i) == ray_intersection_parameter(TriToF32(args.triangles[i]),
                                             VecToF32(args.origin), VecToF32(args.direction))
    IN  {<<i, Hit(i).value>> : i \in {j \in 1 .. Len(args.triangles) : Hit(j).some}}
RECURSIVE LeafSets(_)
LeafSets(node) ==
    IF node.leaf THEN {node.triangles}
    ELSE UNION {LeafSets(node.children[n]) : n \in 1 .. 8}
OctreeCalled == pc = "returned" /\ args.fn = "octree"

\* C17: the nearest-intersection query of the octree returns a triangle hit
\* with the smallest parameter among the hits of the ray on all triangles of
\* the tree, whichever leaves they lie in (none when no triangle is hit); the
\* parameter is positive and the interaction point of the bounce is
\* origin + direction * t of that hit.
C17_NearestHit ==
    OctreeCalled =>
        /\ AllHits = {} <=> ret = None
        /\ ret.some =>
              /\ <<ret.hit_tri, ret.param>> \in AllHits
              /\ \A h \in AllHits : ret.param <= h[2]
              /\ ret.param >= Zero
              /\ \A k \in 1 .. 3 :
                    ret.intersection_point[k] =
                        F32Add(IntToF32(args.origin[k]),
                               F32Mul(IntToF32(args.direction[k]), ret.param))

\* The ray hits two triangles at different parameters, the octree has no
\* leaf that holds both, and the nearer one is returned.
C17_Witness ==
    /\ OctreeCalled
    /\ ret.some
    /\ \E h \in AllHits :
          /\ h[2] > ret.param
          /\ \A leaf \in LeafSets(Octree(args.triangles)) :
                ~({h[1], ret.hit_tri} \subseteq leaf)

TraceEnded == pc = "emit"
AllDeltasAtLeast(x) ==
    \A i \in 1 .. Len(surface) :
        surface[i].delta_straight >= x /\ surface[i].delta_flow >= x
AllDeltasPositive ==
    \A i \in 1 .. Len(surface) :
        surface[i].delta_straight > Zero /\ surface[i].delta_flow > Zero
AllDeltasZero ==
    \A i \in 1 .. Len(surface) :
        /\ surface[i].delta_straight = Zero
        /\ surface[i].delta_parabolic = Zero
        /\ surface[i].delta_flow = Zero

\* C20 as stated: if every surfel has delta_straight > 0 and delta_flow > 0,
\* the trace of a ton ends.
C20_PositiveDeltasTerminate == AllDeltasPositive => <>TraceEnded

\* C20: if every surfel has delta_straight and delta_flow of at least 2^-24
\* and the ton starts with p_straight and p_flow of at most 1, the trace of
\* the ton ends (settled, parabolic, without surfels or escaped): every
\* bounce that goes on has made both probabilities smaller.  With all rates
\* 0, p_straight = 1 and every ray hitting a triangle near a surfel the trace
\* never ends and the number of bounces passes every bound.
C20_TraceEndsOrBouncesForever ==
    /\ (AllDeltasAtLeast(Tiny24) /\ ton.p_straight <= One /\ ton.p_flow <= One)
           => <>TraceEnded
    /\ (AllDeltasZero /\ ton.p_straight = One /\ cfg.closed)
           => ([](~TraceEnded) /\ <>(depth = BounceCap /\ obs.draws = BounceCap))

\* A ton with p_straight = 2^-22 met surfels with the rate 2^-24 and settled
\* after the fourth bounce took its p_straight to 0.
C20_Witness ==
    /\ TraceEnded
    /\ obs.ended = "settled"
    /\ obs.draws = 4
    /\ surface[1].delta_straight = Tiny24
    /\ ton.p_straight = Zero
    /\ ton.p_flow = Zero

====
